---- MODULE Spec2Model ----
(***************************************************************************)
(* Model of app.py: the organizer's meeting registry (a per-meeting number *)
(* table created, registered in reunioes and populated in batches; a       *)
(* meeting deleted from reunioes only), the participant form page (check   *)
(* for an existing response, collect answers, required check, insert) and  *)
(* the number pool manager working on a meeting's number table.            *)
(***************************************************************************)
EXTENDS Integers, Naturals, Sequences, FiniteSets, TLC

\* ------------------------------------------------------------------------
\* Program constants
\* ------------------------------------------------------------------------

\* st.number_input("Numero Maximo de Participantes", 10, 10000, 100): min_value
MinNumeros == 10

\* st.number_input(..., 10, 10000, 100): max_value
MaxNumerosInput == 10000

\* for i in range(0, len(numeros), 1000): insert(numeros[i:i+1000])
TamanhoLote == 1000

\* for i in range(3): the form editor always offers three questions
NumPerguntas == 3

\* st.slider(label, 1, 5)
EscalaMin == 1

EscalaMax == 5

\* ------------------------------------------------------------------------
\* Bounds of the model
\* ------------------------------------------------------------------------

\* the largest number of insert batches a modelled meeting needs
MaxLotes == 2

Min(a, b) == IF a < b THEN a ELSE b

\* organizer sessions running the "Reunioes" page concurrently
Organizadores == {"org1", "org2"}

\* values uuid4().hex[:8] can take for tabela_nome (two draws may collide)
NomesTabela == {"reuniao_a", "reuniao_b"}

\* SQL NULL in column usuario_id (holders are numbered from 1)
NULL == 0

\* values a user may type into the number input, in and out of its range
ValoresDigitados ==
    {0, MinNumeros - 1, MinNumeros}
      \cup {k * TamanhoLote : k \in 1..(MaxLotes - 1)}
      \cup {k * TamanhoLote + 1 : k \in 1..(MaxLotes - 1)}

VARIABLES
    tabelas,      \* tabela_nome -> [existe, linhas: numero -> row]
    reunioes,     \* rows of table reunioes
    criar,        \* per organizer session: the nova_reuniao handler's position
    formularios,  \* formularios.id -> the form's perguntas rows, by ordem
    respostas,    \* rows of table respostas, in insertion order
    user_id,      \* per participant session: st.session_state["user_id"]
    run,          \* per participant session: the page run's position
    chamada,      \* per holder: the requestAssignment call's position
    retorno,      \* per holder: what its last finished call returned
    devolvidos,   \* <<holder, numero>>: every number returned since the reset
    reinicios,    \* number of releaseAll calls so far
    antes         \* the numbers that were assigned when releaseAll last ran
                  \* with no call in flight

varsReg == <<tabelas, reunioes, criar>>

varsForm == <<formularios, respostas, user_id, run>>

varsPool == <<chamada, retorno, devolvidos, reinicios, antes>>

vars == <<tabelas, reunioes, criar, formularios, respostas, user_id, run,
          chamada, retorno, devolvidos, reinicios, antes>>

\* ------------------------------------------------------------------------
\* Meeting registry (organizer page "Reunioes")
\* ------------------------------------------------------------------------

\* a usuario_id column whose default is not NULL
LinhaPadraoSemNull == [atribuido |-> FALSE, usuario_id |-> 0 - 1]

\* the row a number table gives to INSERT {"numero": n}: column defaults
LinhaPadrao == [atribuido |-> FALSE, usuario_id |-> NULL]

\* st.number_input range: the value the script receives lies in [min, max]
NumberInputAceita(v) == v >= MinNumeros /\ v <= MaxNumerosInput

\* a slice that is one element short
LoteCurto(i, max_numeros) == (i + 1)..Min(i + TamanhoLote - 1, max_numeros)

\* numeros[i:i+1000] of numeros = [1..max_numeros]: the slice starting at index i
Lote(i, max_numeros) == (i + 1)..Min(i + TamanhoLote, max_numeros)

\* no table of that name / a table just created, without rows
SemTabela == [existe |-> FALSE, linhas |-> [n \in {} |-> LinhaPadrao]]

TabelaVazia == [existe |-> TRUE, linhas |-> [n \in {} |-> LinhaPadrao]]

\* a session between two runs of the handler: what the last run showed
\* (pedido: the typed value, kept when the number input refused it)
Parado(pedido, resultado) ==
    [pc |-> "idle", tabela_nome |-> "", max_numeros |-> 0, i |-> 0,
     pedido |-> pedido, resultado |-> resultado]

\* id UUID DEFAULT uuid_generate_v4(): a value no row of reunioes has
NovoId == CHOOSE k \in 1..(Cardinality(reunioes) + 1) : \A r \in reunioes : r.id # k

\* the registry before the first meeting
InitRegParado ==
    /\ tabelas = [t \in NomesTabela |-> SemTabela]
    /\ reunioes = {}
    /\ criar = [o \in Organizadores |-> Parado(0, "nenhum")]

\* no form, no participant session
InitFormParado ==
    /\ formularios = [f \in {} |-> <<>>]
    /\ respostas = <<>>
    /\ user_id = [s \in {} |-> 0]
    /\ run = [s \in {} |-> 0]

\* no holder has called the pool manager
InitPoolParado ==
    /\ chamada = [h \in {} |-> 0]
    /\ retorno = [h \in {} |-> 0]
    /\ devolvidos = {}
    /\ reinicios = 0
    /\ antes = {}

InitReg == InitRegParado /\ InitFormParado /\ InitPoolParado

\* the number input refuses a typed value outside [10, 10000]: the handler
\* never runs with it
NumberInputRecusa(o, v) ==
    /\ criar[o].pc = "idle"
    /\ ~NumberInputAceita(v)
    /\ criar' = [criar EXCEPT ![o] = Parado(v, "fora_do_intervalo")]
    /\ UNCHANGED <<tabelas, reunioes>>
    /\ UNCHANGED <<varsForm, varsPool>>

\* "Criar" pressed: tabela_nome drawn, CREATE TABLE reuniao_xxxxxxxx
CriarTabela(o, v, nome) ==
    /\ criar[o].pc = "idle"
    /\ NumberInputAceita(v)
    /\ \/ /\ ~tabelas[nome].existe
          /\ tabelas' = [tabelas EXCEPT ![nome] = TabelaVazia]
          /\ criar' = [criar EXCEPT ![o] =
                 [pc |-> "metadados", tabela_nome |-> nome, max_numeros |-> v,
                  i |-> 0, pedido |-> 0, resultado |-> "nenhum"]]
       \/ \* the statement raises (the name exists already, or the store fails)
          /\ criar' = [criar EXCEPT ![o] = Parado(0, "erro")]
          /\ UNCHANGED tabelas
    /\ UNCHANGED reunioes
    /\ UNCHANGED <<varsForm, varsPool>>

\* supabase.table("reunioes").insert({...}).execute()
InserirMetadados(o) ==
    /\ criar[o].pc = "metadados"
    /\ \/ /\ \A r \in reunioes : r.tabela_nome # criar[o].tabela_nome
          /\ reunioes' = reunioes \cup
                 {[id |-> NovoId, tabela_nome |-> criar[o].tabela_nome,
                   max_numeros |-> criar[o].max_numeros]}
          /\ criar' = [criar EXCEPT ![o].pc = "popular"]
       \/ \* the insert raises: except branch, nothing undone
          /\ criar' = [criar EXCEPT ![o] = Parado(0, "erro")]
          /\ UNCHANGED reunioes
    /\ UNCHANGED tabelas
    /\ UNCHANGED <<varsForm, varsPool>>

\* one pass of the population loop: insert numeros[i:i+1000]
PopularLote(o) ==
    /\ criar[o].pc = "popular"
    /\ LET c == criar[o]
           t == tabelas[c.tabela_nome].linhas
           lote == Lote(c.i, c.max_numeros)
       IN \/ /\ lote \cap DOMAIN t = {}
             /\ tabelas' = [tabelas EXCEPT ![c.tabela_nome].linhas =
                    [n \in DOMAIN t \cup lote |->
                        IF n \in DOMAIN t THEN t[n] ELSE LinhaPadrao]]
             /\ criar' = [criar EXCEPT ![o] =
                    IF c.i + TamanhoLote >= c.max_numeros
                    THEN Parado(0, "sucesso")
                    ELSE [c EXCEPT !.i = c.i + TamanhoLote]]
          \/ \* the batch insert raises: except branch, earlier batches stay
             /\ criar' = [criar EXCEPT ![o] = Parado(0, "erro")]
             /\ UNCHANGED tabelas
    /\ UNCHANGED reunioes
    /\ UNCHANGED <<varsForm, varsPool>>

\* "Excluir": delete from reunioes where id = reuniao.id (the table is kept)
Excluir(o, r) ==
    /\ criar[o].pc = "idle"
    /\ r \in reunioes
    /\ reunioes' = {x \in reunioes : x.id # r.id}
    /\ UNCHANGED <<tabelas, criar>>
    /\ UNCHANGED <<varsForm, varsPool>>

NextReg ==
    \/ \E o \in Organizadores, v \in ValoresDigitados : NumberInputRecusa(o, v)
    \/ \E o \in Organizadores, v \in ValoresDigitados, nome \in NomesTabela :
           CriarTabela(o, v, nome)
    \/ \E o \in Organizadores : InserirMetadados(o)
    \/ \E o \in Organizadores : PopularLote(o)
    \/ \E o \in Organizadores, r \in reunioes : Excluir(o, r)

SpecReg == InitReg /\ [][NextReg]_vars

\* ------------------------------------------------------------------------
\* Claims about the meeting registry
\* ------------------------------------------------------------------------

NenhumaOperacaoEmCurso == \A o \in Organizadores : criar[o].pc = "idle"

C9_TabelaCorrespondeReuniao ==
    NenhumaOperacaoEmCurso =>
        \A t \in NomesTabela :
            tabelas[t].existe =>
                /\ Cardinality({r \in reunioes : r.tabela_nome = t}) = 1
                /\ \A r \in reunioes :
                       r.tabela_nome = t =>
                           DOMAIN tabelas[t].linhas = 1..r.max_numeros

\* ------------------------------------------------------------------------
\* Participant form page and the organizer's form editor
\* ------------------------------------------------------------------------

\* the largest number of forms the organizer creates
MaxFormularios == 1

\* browser sessions opening a form link
Sessoes == {"s1", "s2"}

\* a widget's return value, tagged with its Python type
PyStr(x) == [py |-> "str", str |-> x, list |-> <<>>, int |-> 0]

PyList(x) == [py |-> "list", str |-> "", list |-> x, int |-> 0]

PyInt(x) == [py |-> "int", str |-> "", list |-> <<>>, int |-> x]

PyNone == [py |-> "None", str |-> "", list |-> <<>>, int |-> 0]

\* Python's "not resposta": None, "", [] and 0 are falsy
PyNot(x) ==
    CASE x.py = "None" -> TRUE
      [] x.py = "str" -> x.str = ""
      [] x.py = "list" -> Len(x.list) = 0
      [] x.py = "int" -> x.int = 0

\* one question as the form editor builds it ("opcoes": the text area split
\* on newlines for the two choice types, [] otherwise)
Pergunta(tipo, opcoes, obrigatoria) ==
    [tipo |-> tipo, opcoes |-> opcoes, obrigatoria |-> obrigatoria]

\* the forms the modelled organizer types in: three questions each
ModelosFormulario ==
    { << Pergunta("texto", <<>>, FALSE),
         Pergunta("escolha_unica", <<"x", "y">>, TRUE),
         Pergunta("escala", <<>>, TRUE) >>,
      << Pergunta("texto", <<>>, TRUE),
         Pergunta("multipla_escolha", <<"x", "y">>, FALSE),
         Pergunta("escala", <<>>, FALSE) >>,
      << Pergunta("escolha_unica", <<"">>, TRUE),
         Pergunta("multipla_escolha", <<"x", "y">>, TRUE),
         Pergunta("texto", <<>>, FALSE) >> }

\* what the widget of a question can return
ValoresWidget(pergunta) ==
    CASE pergunta.tipo = "texto" -> {PyStr(""), PyStr("a")}
      [] pergunta.tipo = "multipla_escolha" ->
            {PyList(<<>>)} \cup
            {PyList(<<pergunta.opcoes[k]>>) : k \in DOMAIN pergunta.opcoes}
      [] pergunta.tipo = "escolha_unica" ->
            {PyStr(pergunta.opcoes[k]) : k \in DOMAIN pergunta.opcoes}
      [] pergunta.tipo = "escala" -> {PyInt(EscalaMin), PyInt(EscalaMax)}
      [] OTHER -> {PyNone}

RunParado(resultado) ==
    [pc |-> "idle", form_id |-> 0, perguntas |-> <<>>, resultado |-> resultado]

InitForm ==
    /\ InitRegParado
    /\ InitPoolParado
    /\ formularios = [f \in {} |-> <<>>]
    /\ respostas = <<>>
    /\ user_id = [s \in Sessoes |-> 0]
    /\ run = [s \in Sessoes |-> RunParado("nenhum")]

\* str(uuid.uuid4()): a value no other session holds
Uuid4(s) == CHOOSE k \in 1..Cardinality(Sessoes) :
                \A t \in Sessoes \ {s} : user_id[t] # k

\* "Criar Formulario": insert the formularios row, then the perguntas rows one
\* by one; k is the number of perguntas inserted before an insert raises
CriarFormulario(modelo, k) ==
    /\ Cardinality(DOMAIN formularios) < MaxFormularios
    /\ LET id == Cardinality(DOMAIN formularios) + 1
       IN formularios' =
              [f \in DOMAIN formularios \cup {id} |->
                  IF f = id THEN SubSeq(modelo, 1, k) ELSE formularios[f]]
    /\ UNCHANGED <<respostas, user_id, run>>
    /\ UNCHANGED <<varsReg, varsPool>>

\* no query at all
SemConsulta(form_id, usuario) == {}

\* select * from respostas where formulario_id = form_id and usuario_id = usuario
RespostaExistente(form_id, usuario) ==
    {i \in DOMAIN respostas :
        /\ respostas[i].formulario_id = form_id
        /\ respostas[i].usuario_id = usuario}

\* a page run with ?formulario=form_id, up to the existing-response check
AbrirFormulario(s, form_id) ==
    /\ run[s].pc = "idle"
    /\ LET uid == IF user_id[s] = 0 THEN Uuid4(s) ELSE user_id[s]
       IN /\ user_id' = [user_id EXCEPT ![s] = uid]
          /\ run' = [run EXCEPT ![s] =
                 IF form_id \notin DOMAIN formularios
                 THEN RunParado("erro")
                 ELSE IF RespostaExistente(form_id, uid) # {}
                 THEN RunParado("ja_respondeu")
                 ELSE [pc |-> "verificado", form_id |-> form_id,
                       perguntas |-> formularios[form_id],
                       resultado |-> "nenhum"]]
    /\ UNCHANGED <<formularios, respostas>>
    /\ UNCHANGED <<varsReg, varsPool>>

\* only the last question is tested
SoUltimaObrigatoria(perguntas, valores) ==
    /\ Len(perguntas) > 0
    /\ perguntas[Len(perguntas)].obrigatoria
    /\ PyNot(valores[Len(perguntas)])

\* the loop over perguntas reaches "if obrigatoria and not resposta: st.stop()"
CampoObrigatorioVazio(perguntas, valores) ==
    \E k \in DOMAIN perguntas : perguntas[k].obrigatoria /\ PyNot(valores[k])

\* the rest of the run: widgets, required check, submit button, insert
ColetarEnviar(s, valores, enviar) ==
    /\ run[s].pc = "verificado"
    /\ DOMAIN valores = DOMAIN run[s].perguntas
    /\ \A k \in DOMAIN valores : valores[k] \in ValoresWidget(run[s].perguntas[k])
    /\ IF CampoObrigatorioVazio(run[s].perguntas, valores)
       THEN /\ run' = [run EXCEPT ![s] = RunParado("campo_obrigatorio")]
            /\ UNCHANGED respostas
       ELSE IF ~enviar
       THEN /\ run' = [run EXCEPT ![s] = RunParado("nenhum")]
            /\ UNCHANGED respostas
       ELSE \/ /\ respostas' = Append(respostas,
                      [formulario_id |-> run[s].form_id,
                       usuario_id |-> user_id[s],
                       respostas |-> valores])
               /\ run' = [run EXCEPT ![s] = RunParado("enviado")]
            \/ \* the insert raises: except Exception, no row
               /\ run' = [run EXCEPT ![s] = RunParado("erro")]
               /\ UNCHANGED respostas
    /\ UNCHANGED <<formularios, user_id>>
    /\ UNCHANGED <<varsReg, varsPool>>

\* a new interaction ends the run at a st.* call before the insert
Interromper(s) ==
    /\ run[s].pc = "verificado"
    /\ run' = [run EXCEPT ![s] = RunParado("nenhum")]
    /\ UNCHANGED <<formularios, respostas, user_id>>
    /\ UNCHANGED <<varsReg, varsPool>>

\* the value combinations the widgets of a run can return
Valores(perguntas) ==
    {v \in [DOMAIN perguntas -> UNION {ValoresWidget(perguntas[k]) : k \in DOMAIN perguntas}] :
        \A k \in DOMAIN perguntas : v[k] \in ValoresWidget(perguntas[k])}

NextForm ==
    \/ \E modelo \in ModelosFormulario, k \in 0..NumPerguntas :
           CriarFormulario(modelo, k)
    \/ \E s \in Sessoes, form_id \in 1..MaxFormularios : AbrirFormulario(s, form_id)
    \/ \E s \in Sessoes, enviar \in BOOLEAN :
           \E valores \in Valores(run[s].perguntas) : ColetarEnviar(s, valores, enviar)
    \/ \E s \in Sessoes : Interromper(s)

SpecForm == InitForm /\ [][NextForm]_vars

\* ------------------------------------------------------------------------
\* Claims about the participant form page
\* ------------------------------------------------------------------------

RespostaNaoVazia(x) ==
    \/ x.py = "str" /\ x.str # ""
    \/ x.py = "list" /\ x.list # <<>>
    \/ x.py = "int"

\* C10: every response row answers every required question of its form with
\* a non-empty answer (the row holds the answers of the run that inserted
\* it, so a run with an empty required answer has inserted nothing).
C10_ObrigatoriasRespondidas ==
    \A i \in DOMAIN respostas :
        LET perguntas == formularios[respostas[i].formulario_id]
        IN \A k \in DOMAIN perguntas :
               perguntas[k].obrigatoria =>
                   /\ k \in DOMAIN respostas[i].respostas
                   /\ RespostaNaoVazia(respostas[i].respostas[k])

\* C10 witness: a row answers a form that has a required question, and a run
\* of another session was stopped by the required check
C10_Witness ==
    /\ \E i \in DOMAIN respostas :
           \E k \in DOMAIN formularios[respostas[i].formulario_id] :
               formularios[respostas[i].formulario_id][k].obrigatoria
    /\ \E s \in Sessoes : run[s].resultado = "campo_obrigatorio"

\* ------------------------------------------------------------------------
\* Number pool manager on one meeting's number table
\* ------------------------------------------------------------------------

\* holders whose requests are in the modelled window; the other holders
\* obtained their numbers one after the other before it
NumAtivos == 3

\* the largest number of releaseAll calls
MaxReinicios == 1

\* the pool: the number table of a meeting created with the smallest size
Pool == "reuniao_a"

\* C callers for a pool of N numbers, C = N + 1
Holders == 1..(MinNumeros + 1)

Ativos == {h \in Holders : h > Cardinality(Holders) - NumAtivos}

\* the two holders that call while the administrative reset is in use
AtivosReinicio == {Cardinality(Holders) - 1, Cardinality(Holders)}

Slots == tabelas[Pool].linhas

Livres == {n \in DOMAIN Slots : ~Slots[n].atribuido}

Atribuidos == {n \in DOMAIN Slots : Slots[n].atribuido}

\* poolStatus(poolId) -> {total, free, assigned}
poolStatus ==
    [total |-> Cardinality(DOMAIN Slots), free |-> Cardinality(Livres),
     assigned |-> Cardinality(Atribuidos)]

SemRetorno == [tipo |-> "nenhum", numero |-> 0]

Numero(n) == [tipo |-> "numero", numero |-> n]

PoolExhausted == [tipo |-> "PoolExhausted", numero |-> 0]

EmRepouso == [pc |-> "idle", escolhido |-> 0]

\* the slot row after a claim by holder h
LinhaAtribuida(h) == [atribuido |-> TRUE, usuario_id |-> h]

\* a reset that only unmarks the row
LinhaSoDesmarcada(linha) == [linha EXCEPT !.atribuido = FALSE]

\* the slot row after releaseAll
LinhaLiberada(linha) == [atribuido |-> FALSE, usuario_id |-> NULL]

\* createPool(MinNumeros) has run and the first j holders, one after the
\* other, obtained the numbers 1..j
InitPoolCom(j) ==
    /\ InitFormParado
    /\ tabelas = [t \in NomesTabela |->
                     IF t = Pool
                     THEN [existe |-> TRUE,
                           linhas |-> [n \in 1..MinNumeros |->
                               IF n <= j THEN LinhaAtribuida(n) ELSE LinhaPadrao]]
                     ELSE SemTabela]
    /\ reunioes = {[id |-> 1, tabela_nome |-> Pool, max_numeros |-> MinNumeros]}
    /\ criar = [o \in Organizadores |-> Parado(0, "nenhum")]
    /\ chamada = [h \in Holders |-> EmRepouso]
    /\ retorno = [h \in Holders |-> IF h <= j THEN Numero(h) ELSE SemRetorno]
    /\ devolvidos = {<<h, h>> : h \in 1..j}
    /\ reinicios = 0
    /\ antes = {}

\* all holders but the active ones hold a number
InitPool == InitPoolCom(Cardinality(Holders \ Ativos))

\* any number of the other holders hold a number
InitReinicio == \E j \in 0..Cardinality(Holders \ AtivosReinicio) : InitPoolCom(j)

Devolver(h, r) ==
    /\ retorno' = [retorno EXCEPT ![h] = r]
    /\ devolvidos' = IF r.tipo = "numero"
                     THEN devolvidos \cup {<<h, r.numero>>} ELSE devolvidos

\* requestAssignment, step 1: look for the holder's existing assignment
ProcurarAtribuicao(h) ==
    /\ chamada[h].pc = "idle"
    /\ LET meus == {n \in DOMAIN Slots : Slots[n].usuario_id = h}
       IN IF meus # {}
          THEN /\ \E n \in meus : Devolver(h, Numero(n))
               /\ UNCHANGED chamada
          ELSE /\ chamada' = [chamada EXCEPT ![h].pc = "selecionar"]
               /\ UNCHANGED <<retorno, devolvidos>>
    /\ UNCHANGED <<tabelas, reunioes, criar, reinicios, antes, varsForm>>

\* requestAssignment, step 2: read the free slots and pick one at random
SelecionarLivres(h) ==
    /\ chamada[h].pc = "selecionar"
    /\ IF Livres = {}
       THEN /\ Devolver(h, PoolExhausted)
            /\ chamada' = [chamada EXCEPT ![h] = EmRepouso]
       ELSE /\ \E n \in Livres :
                  chamada' = [chamada EXCEPT ![h] =
                                 [pc |-> "atualizar", escolhido |-> n]]
            /\ UNCHANGED <<retorno, devolvidos>>
    /\ UNCHANGED <<tabelas, reunioes, criar, reinicios, antes, varsForm>>

\* requestAssignment, step 3: update the picked row by its number
AtualizarPorValor(h) ==
    /\ chamada[h].pc = "atualizar"
    /\ LET n == chamada[h].escolhido
       IN /\ tabelas' = [tabelas EXCEPT ![Pool].linhas[n] = LinhaAtribuida(h)]
          /\ Devolver(h, Numero(n))
    /\ chamada' = [chamada EXCEPT ![h] = EmRepouso]
    /\ UNCHANGED <<reunioes, criar, reinicios, antes, varsForm>>

NenhumaChamadaEmCurso == \A h \in Holders : chamada[h].pc = "idle"

\* releaseAll(poolId): every slot back to free, holder data cleared
ReleaseAll ==
    /\ reinicios < MaxReinicios
    /\ tabelas' = [tabelas EXCEPT ![Pool].linhas =
                      [n \in DOMAIN Slots |-> LinhaLiberada(Slots[n])]]
    /\ reinicios' = reinicios + 1
    /\ antes' = IF NenhumaChamadaEmCurso THEN Atribuidos ELSE {}
    /\ retorno' = [h \in Holders |-> SemRetorno]
    /\ devolvidos' = {}
    /\ UNCHANGED <<reunioes, criar, chamada, varsForm>>

\* assignment traffic alone
NextPool ==
    \/ \E h \in Ativos : ProcurarAtribuicao(h)
    \/ \E h \in Ativos : SelecionarLivres(h)
    \/ \E h \in Ativos : AtualizarPorValor(h)

SpecPool == InitPool /\ [][NextPool]_vars

\* assignment traffic and the administrative reset
NextReinicio ==
    \/ \E h \in AtivosReinicio : ProcurarAtribuicao(h)
    \/ \E h \in AtivosReinicio : SelecionarLivres(h)
    \/ \E h \in AtivosReinicio : AtualizarPorValor(h)
    \/ ReleaseAll

SpecReinicio == InitReinicio /\ [][NextReinicio]_vars

\* ------------------------------------------------------------------------
\* Claims about the number pool manager
\* ------------------------------------------------------------------------

\* the numbers returned to holder h, and the holders with a successful call
NumerosDe(h) == {n \in DOMAIN Slots : <<h, n>> \in devolvidos}

Sucedidos == {h \in Holders : NumerosDe(h) # {}}

\* C1: no two successful calls of distinct holders return the same number;
\* no slot has been granted to two different holders.
C1_NumerosExclusivos ==
    \A p \in devolvidos, q \in devolvidos : p[2] = q[2] => p[1] = q[1]

\* C2: once a call of holder h has succeeded, every later call of h returns
\* that same number and never reaches the step that writes a slot.
C2_Idempotente ==
    \A h \in Holders :
        NumerosDe(h) # {} =>
            /\ retorno[h].tipo = "numero"
            /\ NumerosDe(h) = {retorno[h].numero}
            /\ chamada[h].pc # "atualizar"

\* C3: after N successful calls by N distinct holders of a pool of size N,
\* exactly N slots are assigned and none is free, and no further holder
\* succeeds (its call fails with PoolExhausted and assigns nothing).
C3_PoolEsgotado ==
    /\ Cardinality(Sucedidos) <= poolStatus.total
    /\ Cardinality(Sucedidos) = poolStatus.total
          => /\ poolStatus.assigned = poolStatus.total
             /\ poolStatus.free = 0
             /\ \A h \in Holders \ Sucedidos :
                    retorno[h] \in {SemRetorno, PoolExhausted}

\* C5: when each of C > N holders has finished a call on the pool of size N,
\* exactly N calls have succeeded, C - N have failed with PoolExhausted, and
\* the numbers of the successful calls are pairwise distinct.
C5_ChamadasConcorrentes ==
    (\A h \in Holders : chamada[h].pc = "idle" /\ retorno[h] # SemRetorno) =>
        LET ok == {h \in Holders : retorno[h].tipo = "numero"}
            falhas == {h \in Holders : retorno[h] = PoolExhausted}
        IN /\ Cardinality(ok) = poolStatus.total
           /\ Cardinality(falhas) = Cardinality(Holders) - poolStatus.total
           /\ \A g \in ok, h \in ok :
                  retorno[g].numero = retorno[h].numero => g = h

\* C6: a releaseAll that runs while no requestAssignment is in flight, on a
\* pool with any number of assigned slots, leaves poolStatus = {total, free:
\* total, assigned: 0} with total unchanged and no slot with a holder.
C6_ReleaseAll ==
    [][(reinicios' = reinicios + 1 /\ NenhumaChamadaEmCurso) =>
          /\ poolStatus' = [total |-> poolStatus.total,
                            free |-> poolStatus.total, assigned |-> 0]
          /\ \A n \in DOMAIN Slots' : Slots'[n].usuario_id = NULL]_vars

\* C6 witness: after a releaseAll that ran with no call in flight, a call
\* has returned a number that was assigned when the reset ran, and the slot
\* is the caller's
C6_Witness ==
    /\ reinicios >= 1
    /\ \E h \in Holders :
           /\ retorno[h].tipo = "numero"
           /\ retorno[h].numero \in antes
           /\ Slots[retorno[h].numero] = LinhaAtribuida(h)

\* C7 (as stated): a slot that is assigned never goes back to free.
C7_Original ==
    [][\A n \in DOMAIN Slots : Slots[n].atribuido => Slots'[n].atribuido]_vars

\* C7 (amended): a slot has a holder identifier exactly when it is assigned,
\* and an assigned slot goes back to free only in a releaseAll step (so
\* between two resets it goes from free to assigned at most once).
C7_SlotSoVoltaNoReinicio ==
    [][\A n \in DOMAIN Slots :
         /\ Slots[n].atribuido <=> Slots[n].usuario_id # NULL
         /\ Slots'[n].atribuido <=> Slots'[n].usuario_id # NULL
         /\ (Slots[n].atribuido /\ ~Slots'[n].atribuido)
               => reinicios' = reinicios + 1]_vars

\* C7 witness: a slot assigned before the reset was freed by it and has been
\* assigned again
C7_Witness ==
    /\ reinicios >= 1
    /\ \E n \in antes : Slots[n].atribuido /\ Slots[n].usuario_id # NULL

====
